---- MODULE Spec2Model ----
(***************************************************************************)
(* Model of tardis/simulation/base.py: the Simulation class, its           *)
(* iteration loop legacy_run_simulation, the hold state machine, the       *)
(* convergence verdict and the damped plasma-state update.                 *)
(*                                                                         *)
(* Numbers: temperatures and dilution factors are integers on a fixed      *)
(* grid; thresholds, damping constants and luminosity ratios are exact     *)
(* rationals <<numerator, denominator>>.  The estimator outputs of the     *)
(* Monte Carlo runner are drawn only from grid values for which the damped *)
(* update is exact, so no rounding is introduced by the model.             *)
(***************************************************************************)
EXTENDS Integers, Sequences, FiniteSets, TLC

\* ---------------------------------------------------------------- bounds
MaxIterations == 3      \* montecarlo.iterations ranges over 0..MaxIterations
MaxHold == 2            \* convergence_strategy.hold_iterations over 0..MaxHold
MaxExecuted == 3        \* cap on loop iterations explored in one run
MaxPackets == 2         \* number of packets in the energy array returned
MaxValue == 5           \* damped_converge is called on values 1..MaxValue
MaxDen == 4             \* and on damping factors with denominator 1..MaxDen

\* ------------------------------------------------- configuration (fixed)
\* an optional value: None, or Some(x)
None == <<>>
Some(x) == <<x>>
The(option) == option[1]

no_of_shells == 2
no_of_packets == 40
last_no_of_packets_value == 50
no_of_virtual_packets == 3
lock_t_inner_cycles == 2

t_rad_threshold == <<2, 5>>
w_threshold == <<1, 2>>
t_inner_threshold == <<2, 5>>

t_rad_damping_constant == <<1, 2>>
w_damping_constant == <<1, 1>>
t_inner_damping_constant == <<1, 1>>

ConvergenceTypes == {"specific", "damped", "bogus"}

\* emitted_luminosity / luminosity_requested, perfect squares only so that
\* ratio ** -0.5 is rational
LuminosityRatios == {<<1, 4>>, <<1, 1>>, <<4, 1>>}

Shells == 1..no_of_shells

\* the grids the estimates of the runner are drawn from
TRadGrid == {1, 2, 3}
WGrid == {1, 2}
TInnerGrid == {1, 2, 4}

VARIABLES
    tardis_config,            \* self.tardis_config (the fields the loop reads)
    self_converged,           \* Simulation.converged / self.converged
    iterations_remaining,     \* self.iterations_remaining
    iterations_max_requested, \* self.iterations_max_requested
    iterations_executed,      \* self.iterations_executed
    converged,                \* local variable converged of the run
    model,                    \* the Radial1DModel passed to the run
    pc,                       \* position of the run in legacy_run_simulation
    calls,                    \* runner.run invocations of the current run
    montecarlo_energies,      \* local of run_single_montecarlo, while in scope
    critical_logged,          \* logger.critical emitted by that call
    estimated,                \* locals estimated_t_rad, estimated_w, estimated_t_inner
    error,                    \* the exception that ended the run, or None
    converged_from,           \* history: 0 while no verdict was true, k when
                              \* the first true verdict came at iteration k
                              \* and every later one was true, else -1
    call,                     \* a direct call of one method: its arguments
    result                    \* what that call returned, once it has returned

vars == <<tardis_config, self_converged, iterations_remaining,
          iterations_max_requested, iterations_executed, converged, model,
          pc, calls, montecarlo_energies, critical_logged, estimated, error,
          converged_from, call, result>>

\* the state of a run of legacy_run_simulation
run_vars == <<tardis_config, self_converged, iterations_remaining,
              iterations_max_requested, iterations_executed, converged, model,
              pc, calls, montecarlo_energies, critical_logged, estimated,
              error, converged_from>>

\* the state of a direct method call
call_vars == <<call, result>>

\* ------------------------------------------------------------ __init__
\* the list handed to itertools.cycle: True on the first cycle only
T_inner_lock_cycle == [i \in 1..lock_t_inner_cycles |-> i = 1]

\* the value the cyclic schedule holds for the n-th loop iteration (n >= 1)
T_inner_update(n) == T_inner_lock_cycle[((n - 1) % lock_t_inner_cycles) + 1]

\* ----------------------------------------------- run_single_montecarlo
\* the energy arrays a transport call can return, one entry per packet; the
\* code reads the array through a count only, so one array per multiset of
\* energies (the non-decreasing one) is drawn
Energies ==
    {e \in [1..MaxPackets -> {-1, 0, 1}] :
        \A i \in 1..(MaxPackets - 1) : e[i] <= e[i + 1]}

\* faulty variant: counts energies <= 0
NoPacketEscaped_NonPositive(energies) ==
    Cardinality({i \in DOMAIN energies : energies[i] <= 0}) = Len(energies)

NoPacketEscaped(energies) ==
    Cardinality({i \in DOMAIN energies : energies[i] < 0}) = Len(energies)

RunnerCall(packets, virtual_packets, last_run) ==
    [no_of_packets |-> packets,
     no_of_virtual_packets |-> virtual_packets,
     last_run |-> last_run]

\* ----------------------------------------------------- estimate_t_inner
Root(x) == CHOOSE r \in 0..x : r * r = x

\* input_t_inner * luminosity_ratios ** -0.5, exact when the division is
EstimateTInnerExact(input_t_inner, ratio) ==
    (input_t_inner * Root(ratio[2])) % Root(ratio[1]) = 0

Estimate_t_inner(input_t_inner, ratio) ==
    (input_t_inner * Root(ratio[2])) \div Root(ratio[1])

\* ---------------------------------------------- get_convergence_status
Abs(x) == IF x < 0 THEN -x ELSE x

\* abs(value - estimated) / estimated < threshold, for estimated > 0
DeviationBelow(value, estimated_value, threshold) ==
    Abs(value - estimated_value) * threshold[2] < threshold[1] * estimated_value

\* faulty variant: the fraction is rounded down to an integer
FractionAbove_Floor(count, threshold) ==
    (count \div no_of_shells) * threshold[2] > threshold[1]

\* count / no_of_shells > threshold
FractionAbove(count, threshold) ==
    count * threshold[2] > threshold[1] * no_of_shells

\* faulty variant: the thresholds are tested whatever the strategy type
Get_convergence_status_AnyType(type, t_rad, w, t_inner, estimated_t_rad, estimated_w, estimated_t_inner) ==
    [raised |-> FALSE,
     value |->
         /\ FractionAbove(
                Cardinality({s \in Shells :
                    DeviationBelow(t_rad[s], estimated_t_rad[s],
                                   t_rad_threshold)}),
                t_rad_threshold)
         /\ FractionAbove(
                Cardinality({s \in Shells :
                    DeviationBelow(w[s], estimated_w[s], w_threshold)}),
                w_threshold)
         /\ DeviationBelow(t_inner, estimated_t_inner, t_inner_threshold)]

\* 'specific': the three threshold tests; any other type: False
Get_convergence_status(type, t_rad, w, t_inner, estimated_t_rad, estimated_w, estimated_t_inner) ==
    IF type = "specific"
    THEN LET t_rad_converged ==
                 FractionAbove(
                     Cardinality({s \in Shells :
                         DeviationBelow(t_rad[s], estimated_t_rad[s],
                                        t_rad_threshold)}),
                     t_rad_threshold)
             w_converged ==
                 FractionAbove(
                     Cardinality({s \in Shells :
                         DeviationBelow(w[s], estimated_w[s], w_threshold)}),
                     w_threshold)
             t_inner_converged ==
                 DeviationBelow(t_inner, estimated_t_inner, t_inner_threshold)
         IN [raised |-> FALSE,
             value |-> t_rad_converged /\ w_converged /\ t_inner_converged]
    ELSE [raised |-> FALSE, value |-> FALSE]

\* ------------------------------------------------------ damped_converge
DampedExact(value, estimated_value, damping_factor) ==
    (damping_factor[1] * (estimated_value - value)) % damping_factor[2] = 0

\* faulty variant: the estimate is added without subtracting the value
Damped_converge_NoDifference(value, estimated_value, damping_factor) ==
    value + (damping_factor[1] * estimated_value) \div damping_factor[2]

\* value + damping_factor * (estimated_value - value)
Damped_converge(value, estimated_value, damping_factor) ==
    value + (damping_factor[1] * (estimated_value - value)) \div damping_factor[2]

\* ------------------------------------------ calculate_next_plasma_state
\* faulty variant: the strategy type is not validated
Calculate_next_plasma_state_AnyType(type, t_rad, w, t_inner, estimated_w, estimated_t_rad, estimated_t_inner) ==
    [raised |-> FALSE,
     next_t_rad |-> [s \in Shells |->
         Damped_converge(t_rad[s], estimated_t_rad[s],
                         t_rad_damping_constant)],
     next_w |-> [s \in Shells |->
         Damped_converge(w[s], estimated_w[s], w_damping_constant)],
     next_t_inner |->
         Damped_converge(t_inner, estimated_t_inner,
                         t_inner_damping_constant)]

\* faulty variant: an unrecognized type silently keeps the current state
Calculate_next_plasma_state_Silent(type, t_rad, w, t_inner, estimated_w, estimated_t_rad, estimated_t_inner) ==
    IF type = "damped" \/ type = "specific"
    THEN [raised |-> FALSE,
          next_t_rad |-> [s \in Shells |->
              Damped_converge(t_rad[s], estimated_t_rad[s],
                              t_rad_damping_constant)],
          next_w |-> [s \in Shells |->
              Damped_converge(w[s], estimated_w[s], w_damping_constant)],
          next_t_inner |->
              Damped_converge(t_inner, estimated_t_inner,
                              t_inner_damping_constant)]
    ELSE [raised |-> FALSE,
          next_t_rad |-> t_rad,
          next_w |-> w,
          next_t_inner |-> t_inner]

\* faulty variant: w is damped with the damping constant of t_rad
Calculate_next_plasma_state_SharedDamping(type, t_rad, w, t_inner, estimated_w, estimated_t_rad, estimated_t_inner) ==
    IF type = "damped" \/ type = "specific"
    THEN [raised |-> FALSE,
          next_t_rad |-> [s \in Shells |->
              Damped_converge(t_rad[s], estimated_t_rad[s],
                              t_rad_damping_constant)],
          next_w |-> [s \in Shells |->
              Damped_converge(w[s], estimated_w[s], t_rad_damping_constant)],
          next_t_inner |->
              Damped_converge(t_inner, estimated_t_inner,
                              t_inner_damping_constant)]
    ELSE [raised |-> TRUE,
          exception |-> "ValueError",
          names |-> type]

\* damped/specific: each quantity damped with its own constant; else ValueError
Calculate_next_plasma_state(type, t_rad, w, t_inner, estimated_w, estimated_t_rad, estimated_t_inner) ==
    IF type = "damped" \/ type = "specific"
    THEN [raised |-> FALSE,
          next_t_rad |-> [s \in Shells |->
              Damped_converge(t_rad[s], estimated_t_rad[s],
                              t_rad_damping_constant)],
          next_w |-> [s \in Shells |->
              Damped_converge(w[s], estimated_w[s], w_damping_constant)],
          next_t_inner |->
              Damped_converge(t_inner, estimated_t_inner,
                              t_inner_damping_constant)]
    ELSE [raised |-> TRUE,
          exception |-> "ValueError",
          names |-> type]

\* ------------------------------------------------ legacy_run_simulation
\* faulty variant: the loop stops with two iterations remaining
LoopCondition_AboveTwo(remaining) == remaining > 2

\* faulty variant: off-by-one loop test
LoopCondition_AtLeastOne(remaining) == remaining >= 1

\* while self.iterations_remaining > 1
LoopCondition(remaining) == remaining > 1

\* faulty variant: leaving the hold refunds the whole budget
HoldTransition_FullRefund(verdict, sticky, remaining, max_requested, executed, hold) ==
    IF verdict /\ ~sticky
    THEN [converged |-> TRUE, iterations_remaining |-> hold]
    ELSE IF ~verdict /\ sticky
    THEN [converged |-> FALSE, iterations_remaining |-> max_requested]
    ELSE [converged |-> sticky, iterations_remaining |-> remaining]

\* faulty variant: the budget is recomputed without the iteration just run
HoldTransition_StaleCount(verdict, sticky, remaining, max_requested, executed, hold) ==
    IF verdict /\ ~sticky
    THEN [converged |-> TRUE, iterations_remaining |-> hold]
    ELSE IF ~verdict /\ sticky
    THEN [converged |-> FALSE,
          iterations_remaining |-> max_requested - (executed - 1)]
    ELSE [converged |-> sticky, iterations_remaining |-> remaining]

\* the if / elif / else on (converged, self.converged)
HoldTransition(verdict, sticky, remaining, max_requested, executed, hold) ==
    IF verdict /\ ~sticky
    THEN [converged |-> TRUE, iterations_remaining |-> hold]
    ELSE IF ~verdict /\ sticky
    THEN [converged |-> FALSE,
          iterations_remaining |-> max_requested - executed]
    ELSE [converged |-> sticky, iterations_remaining |-> remaining]

\* faulty variant: no re-arming after the if / elif
Rearm_Never(verdict, remaining, hold) == remaining

\* faulty variant: re-arming never shortens the remaining budget
Rearm_KeepLarger(verdict, remaining, hold) ==
    IF verdict /\ hold > remaining THEN hold ELSE remaining

\* the trailing "if converged:" re-arming of the hold window
Rearm(verdict, remaining, hold) ==
    IF verdict THEN hold ELSE remaining

\* faulty variant: t_inner is left as it was
ReplaceState_KeepTInner(m, next) ==
    [m EXCEPT !.t_rads = next.next_t_rad,
              !.ws = next.next_w]

\* model.t_rads = next_t_rad; model.ws = next_w; model.t_inner = next_t_inner
ReplaceState(m, next) ==
    [m EXCEPT !.t_rads = next.next_t_rad,
              !.ws = next.next_w,
              !.t_inner = next.next_t_inner]

\* faulty variant: the last-run packet count is ignored
LastPackets_Normal(config) == no_of_packets

\* packet count of the terminal run
LastPackets(config) ==
    IF config.last_no_of_packets # None
    THEN The(config.last_no_of_packets)
    ELSE no_of_packets

\* faulty variant: the terminal run is counted as an executed iteration
RecordOnModel_CountsLastRun(m, packets, virtual_packets, verdict, executed, max_requested) ==
    [m EXCEPT !.no_of_packets = Some(packets),
              !.no_of_virtual_packets = Some(virtual_packets),
              !.converged = Some(verdict),
              !.iterations_executed = Some(executed + 1),
              !.iterations_max_requested = Some(max_requested)]

\* the attributes the end of the run records on the model
RecordOnModel(m, packets, virtual_packets, verdict, executed, max_requested) ==
    [m EXCEPT !.no_of_packets = Some(packets),
              !.no_of_virtual_packets = Some(virtual_packets),
              !.converged = Some(verdict),
              !.iterations_executed = Some(executed),
              !.iterations_max_requested = Some(max_requested)]

\* the model as handed over by the caller, before the run writes to it
FreshModel ==
    [t_rads |-> [s \in Shells |-> IF s % 2 = 1 THEN 1 ELSE 3],
     ws |-> [s \in Shells |-> 1],
     t_inner |-> 2,
     no_of_packets |-> None,
     no_of_virtual_packets |-> None,
     converged |-> None,
     iterations_executed |-> None,
     iterations_max_requested |-> None]

NoEstimates == None

Configs ==
    [type : ConvergenceTypes,
     iterations : 0..MaxIterations,
     hold_iterations : 0..MaxHold,
     last_no_of_packets : {None, Some(last_no_of_packets_value)}]

\* Simulation(tardis_config): the instance exists, no run was started
Init ==
    /\ tardis_config \in Configs
    /\ self_converged = FALSE
    /\ iterations_remaining = 0
    /\ iterations_max_requested = 0
    /\ iterations_executed = 0
    /\ converged = FALSE
    /\ model = FreshModel
    /\ pc = "idle"
    /\ calls = <<>>
    /\ montecarlo_energies = None
    /\ critical_logged = FALSE
    /\ estimated = NoEstimates
    /\ error = None
    /\ converged_from = 0
    /\ call = None
    /\ result = None

\* entry of legacy_run_simulation up to the first loop test
StartRun ==
    /\ pc \in {"idle", "done", "error"}
    /\ iterations_remaining' = tardis_config.iterations
    /\ iterations_max_requested' = tardis_config.iterations
    /\ iterations_executed' = 0
    /\ converged' = FALSE
    /\ model' = FreshModel
    /\ pc' = "while"
    /\ calls' = <<>>
    /\ montecarlo_energies' = None
    /\ critical_logged' = FALSE
    /\ estimated' = NoEstimates
    /\ error' = None
    /\ converged_from' = 0
    /\ UNCHANGED <<tardis_config, self_converged>>
    /\ UNCHANGED call_vars

\* loop test true: run_single_montecarlo and the two counter updates
LoopTransport ==
    /\ pc = "while"
    /\ LoopCondition(iterations_remaining)
    /\ iterations_executed < MaxExecuted
    /\ \E energies \in Energies :
         /\ montecarlo_energies' = Some(energies)
         /\ critical_logged' = NoPacketEscaped(energies)
    /\ calls' = Append(calls, RunnerCall(no_of_packets, 0, FALSE))
    /\ iterations_executed' = iterations_executed + 1
    /\ iterations_remaining' = iterations_remaining - 1
    /\ pc' = "estimate"
    /\ UNCHANGED <<tardis_config, self_converged, iterations_max_requested,
                   converged, model, estimated, error, converged_from>>
    /\ UNCHANGED call_vars

\* the estimates of this iteration and the convergence verdict
GetVerdict ==
    /\ pc = "estimate"
    /\ \E e_t_rad \in [Shells -> TRadGrid],
          e_w \in [Shells -> WGrid],
          ratio \in LuminosityRatios :
         /\ \A s \in Shells :
              /\ DampedExact(model.t_rads[s], e_t_rad[s], t_rad_damping_constant)
              /\ DampedExact(model.ws[s], e_w[s], w_damping_constant)
         /\ EstimateTInnerExact(model.t_inner, ratio)
         /\ Estimate_t_inner(model.t_inner, ratio) \in TInnerGrid
         /\ DampedExact(model.t_inner, Estimate_t_inner(model.t_inner, ratio),
                        t_inner_damping_constant)
         /\ LET e_t_inner == Estimate_t_inner(model.t_inner, ratio)
                status == Get_convergence_status(
                              tardis_config.type, model.t_rads, model.ws,
                              model.t_inner, e_t_rad, e_w, e_t_inner)
            IN /\ estimated' = Some([t_rad |-> e_t_rad, w |-> e_w,
                                     t_inner |-> e_t_inner])
               /\ IF status.raised
                  THEN /\ pc' = "error"
                       /\ error' = Some([raised_by |-> "get_convergence_status",
                                         exception |-> status.exception,
                                         names |-> status.names])
                       /\ UNCHANGED <<converged, converged_from>>
                  ELSE /\ pc' = "next_state"
                       /\ error' = error
                       /\ converged' = status.value
                       /\ converged_from' =
                              IF converged_from = 0
                              THEN (IF status.value
                                    THEN iterations_executed ELSE 0)
                              ELSE (IF status.value
                                    THEN converged_from ELSE -1)
    /\ montecarlo_energies' = None
    /\ critical_logged' = FALSE
    /\ UNCHANGED <<tardis_config, self_converged, iterations_remaining,
                   iterations_max_requested, iterations_executed, model,
                   calls>>
    /\ UNCHANGED call_vars

\* calculate_next_plasma_state and the replacement of the model's state
NextState ==
    /\ pc = "next_state"
    /\ LET next == Calculate_next_plasma_state(
                       tardis_config.type, model.t_rads, model.ws,
                       model.t_inner, The(estimated).w,
                       The(estimated).t_rad, The(estimated).t_inner)
       IN IF next.raised
          THEN /\ pc' = "error"
               /\ error' = Some([raised_by |-> "calculate_next_plasma_state",
                                 exception |-> next.exception,
                                 names |-> next.names])
               /\ model' = model
          ELSE /\ pc' = "hold"
               /\ error' = error
               /\ model' = ReplaceState(model, next)
    /\ estimated' = NoEstimates
    /\ UNCHANGED <<tardis_config, self_converged, iterations_remaining,
                   iterations_max_requested, iterations_executed, converged,
                   calls, montecarlo_energies, critical_logged,
                   converged_from>>
    /\ UNCHANGED call_vars

\* the hold state machine at the end of the loop body
HoldStep ==
    /\ pc = "hold"
    /\ LET t == HoldTransition(converged, self_converged,
                               iterations_remaining, iterations_max_requested,
                               iterations_executed,
                               tardis_config.hold_iterations)
       IN /\ self_converged' = t.converged
          /\ iterations_remaining' =
                 Rearm(converged, t.iterations_remaining,
                       tardis_config.hold_iterations)
    /\ pc' = "while"
    /\ UNCHANGED <<tardis_config, iterations_max_requested,
                   iterations_executed, converged, model, calls,
                   montecarlo_energies, critical_logged, estimated, error,
                   converged_from>>
    /\ UNCHANGED call_vars

\* loop test false: the terminal run and the hand-over to the model
LastRun ==
    /\ pc = "while"
    /\ ~LoopCondition(iterations_remaining)
    /\ \E energies \in Energies :
         /\ montecarlo_energies' = Some(energies)
         /\ critical_logged' = NoPacketEscaped(energies)
    /\ calls' = Append(calls, RunnerCall(LastPackets(tardis_config),
                                         no_of_virtual_packets, TRUE))
    /\ model' = RecordOnModel(model, LastPackets(tardis_config),
                              no_of_virtual_packets, converged,
                              iterations_executed, iterations_max_requested)
    /\ pc' = "done"
    /\ UNCHANGED <<tardis_config, self_converged, iterations_remaining,
                   iterations_max_requested, iterations_executed, converged,
                   estimated, error, converged_from>>
    /\ UNCHANGED call_vars

Next ==
    \/ StartRun
    \/ LoopTransport
    \/ GetVerdict
    \/ NextState
    \/ HoldStep
    \/ LastRun

Spec == Init /\ [][Next]_vars

\* ------------------------------------------------- direct method calls
\* get_convergence_status, calculate_next_plasma_state and damped_converge
\* called on their own, with arguments drawn from small sets

\* values of value and estimated_value for damped_converge
FnValues == 1..MaxValue

\* damping factors n / m, from 0 to above 1
DampingFactors == {<<n, m>> : n \in 0..(MaxDen + 1), m \in 1..MaxDen}

\* plasma states and estimates for the two methods that take them
TRadSamples == {3, 5}
WSamples == {1, 2}
TInnerSamples == {3, 5}

DampedCalls ==
    {c \in [fn : {"damped_converge"},
            value : FnValues,
            estimated_value : FnValues,
            damping_factor : DampingFactors] :
        DampedExact(c.value, c.estimated_value, c.damping_factor)}

PlasmaCalls(fn) ==
    [fn : {fn},
     type : ConvergenceTypes,
     t_rad : [Shells -> TRadSamples],
     w : [Shells -> WSamples],
     t_inner : TInnerSamples,
     estimated_t_rad : [Shells -> TRadSamples],
     estimated_w : [Shells -> WSamples],
     estimated_t_inner : TInnerSamples]

IdleConfig ==
    [type |-> "specific", iterations |-> 1, hold_iterations |-> 0,
     last_no_of_packets |-> None]

\* an instance on which one method is about to be called
InitFn ==
    /\ tardis_config = IdleConfig
    /\ self_converged = FALSE
    /\ iterations_remaining = 0
    /\ iterations_max_requested = 0
    /\ iterations_executed = 0
    /\ converged = FALSE
    /\ model = FreshModel
    /\ pc = "idle"
    /\ calls = <<>>
    /\ montecarlo_energies = None
    /\ critical_logged = FALSE
    /\ estimated = NoEstimates
    /\ error = None
    /\ converged_from = 0
    /\ result = None
    /\ \/ \E c \in DampedCalls : call = Some(c)
       \/ \E c \in PlasmaCalls("get_convergence_status") : call = Some(c)
       \/ \E c \in PlasmaCalls("calculate_next_plasma_state") : call = Some(c)

CallDampedConverge ==
    /\ call # None
    /\ result = None
    /\ The(call).fn = "damped_converge"
    /\ result' = Some(Damped_converge(The(call).value,
                                      The(call).estimated_value,
                                      The(call).damping_factor))
    /\ UNCHANGED <<call, run_vars>>

CallGetConvergenceStatus ==
    /\ call # None
    /\ result = None
    /\ The(call).fn = "get_convergence_status"
    /\ LET c == The(call)
       IN result' = Some(Get_convergence_status(
                             c.type, c.t_rad, c.w, c.t_inner,
                             c.estimated_t_rad, c.estimated_w,
                             c.estimated_t_inner))
    /\ UNCHANGED <<call, run_vars>>

CallCalculateNextPlasmaState ==
    /\ call # None
    /\ result = None
    /\ The(call).fn = "calculate_next_plasma_state"
    /\ LET c == The(call)
       IN result' = Some(Calculate_next_plasma_state(
                             c.type, c.t_rad, c.w, c.t_inner,
                             c.estimated_w, c.estimated_t_rad,
                             c.estimated_t_inner))
    /\ UNCHANGED <<call, run_vars>>

NextFn ==
    \/ CallDampedConverge
    \/ CallGetConvergenceStatus
    \/ CallCalculateNextPlasmaState

SpecFn == InitFn /\ [][NextFn]_vars

\* ------------------------------------------------------------ properties
hold_iterations == tardis_config.hold_iterations

KnownType == tardis_config.type \in {"damped", "specific"}

\* the packet count the terminal run is expected to use
FinalPackets ==
    IF tardis_config.last_no_of_packets = None
    THEN no_of_packets
    ELSE The(tardis_config.last_no_of_packets)

AllNegative(energies) == \A i \in DOMAIN energies : energies[i] < 0

AllNonPositive(energies) == \A i \in DOMAIN energies : energies[i] <= 0

\* C1: when the verdict first becomes true at iteration k and stays true,
\* the loop runs no more than hold_iterations further iterations after k,
\* and at k + hold_iterations the loop test fails so that the terminal run
\* is next.
C1_HoldThenTerminal ==
    converged_from > 0 =>
        /\ iterations_executed <= converged_from + hold_iterations
        /\ (pc = "while"
            /\ iterations_executed = converged_from + hold_iterations)
               => ~LoopCondition(iterations_remaining)

\* C2: at the end of a loop iteration whose verdict is true,
\* iterations_remaining equals hold_iterations and self.converged is true.
C2_ConvergedIterationArmsHold ==
    (pc = "while" /\ iterations_executed > 0 /\ converged) =>
        /\ iterations_remaining = hold_iterations
        /\ self_converged

\* a converged iteration that follows an earlier converged iteration
C2_Witness ==
    /\ pc = "while"
    /\ converged
    /\ converged_from > 0
    /\ converged_from < iterations_executed
    /\ hold_iterations = 2

\* C3: the transition step of an iteration with a false verdict and a true
\* sticky flag clears the flag and sets iterations_remaining to
\* iterations_max_requested - iterations_executed (the iteration just
\* completed already counted); with verdict = sticky flag the flag is kept,
\* and for a false verdict iterations_remaining is kept too.
C3_HoldExit ==
    [][(pc = "hold" /\ pc' = "while") =>
        /\ iterations_executed = Len(calls)
        /\ (~converged /\ self_converged) =>
              /\ ~self_converged'
              /\ iterations_remaining' =
                     iterations_max_requested - iterations_executed
        /\ (converged = self_converged) =>
              /\ self_converged' = self_converged
              /\ ~converged => iterations_remaining' = iterations_remaining
      ]_vars

\* the loop test right after a hold was abandoned
C3_Witness ==
    /\ pc = "while"
    /\ converged_from = -1
    /\ iterations_executed >= 2
    /\ ~converged
    /\ ~self_converged
    /\ iterations_remaining = iterations_max_requested - iterations_executed

\* C4: iterations_remaining, iterations_executed and
\* iterations_max_requested are never negative.
C4_NonNegative ==
    /\ iterations_remaining >= 0
    /\ iterations_executed >= 0
    /\ iterations_max_requested >= 0

\* C5: with iterations = 1 the loop body never runs, no error is raised,
\* iterations_executed stays 0 and the only transport call of a run is the
\* terminal one, with last_run, the last-run packet count and the
\* configured number of virtual packets.
C5_SingleIteration ==
    tardis_config.iterations = 1 =>
        /\ pc \in {"idle", "while", "done"}
        /\ iterations_executed = 0
        /\ error = None
        /\ pc = "while" => calls = <<>>
        /\ pc = "done" =>
              calls = <<RunnerCall(FinalPackets, no_of_virtual_packets, TRUE)>>

C5_Witness ==
    /\ tardis_config.iterations = 1
    /\ pc = "done"
    /\ tardis_config.last_no_of_packets # None
    /\ Len(calls) = 1

\* C6: every transport call before the last one of a completed run is made
\* with last_run false, zero virtual packets and no_of_packets; the last
\* call of a completed run is the only one with last_run true and uses the
\* last-run packet count and the configured number of virtual packets.
C6_OneFinalCall ==
    /\ \A i \in 1..Len(calls) :
          (i < Len(calls) \/ pc # "done") =>
              calls[i] = RunnerCall(no_of_packets, 0, FALSE)
    /\ pc = "done" =>
          /\ Len(calls) >= 1
          /\ calls[Len(calls)] =
                 RunnerCall(FinalPackets, no_of_virtual_packets, TRUE)

C6_Witness ==
    /\ pc = "done"
    /\ Len(calls) >= 3
    /\ tardis_config.last_no_of_packets # None

\* C7 as stated: with an unrecognized type, once the verdict was requested
\* an error naming the type has been raised.
C7_BothRaise ==
    (~KnownType /\ pc \in {"next_state", "hold", "error"}) =>
        /\ error # None
        /\ The(error).names = tardis_config.type

\* C7 amended: with an unrecognized type get_convergence_status returns
\* false without raising, and calculate_next_plasma_state raises a
\* ValueError that names the type instead of returning a next state.
C7_NextStateRaises ==
    ~KnownType =>
        /\ pc = "next_state" => (error = None /\ ~converged)
        /\ pc # "hold"
        /\ error # None => pc = "error"
        /\ pc = "error" =>
              /\ error # None
              /\ The(error).raised_by = "calculate_next_plasma_state"
              /\ The(error).exception = "ValueError"
              /\ The(error).names = tardis_config.type

C7_Witness ==
    /\ tardis_config.type = "bogus"
    /\ pc = "error"
    /\ iterations_executed = 1

\* C8: a loop iteration for which the cyclic t_inner_update schedule holds
\* false leaves the model's t_inner unchanged.
C8_GatedTInner ==
    [][(pc = "next_state" /\ pc' = "hold"
        /\ ~T_inner_update(iterations_executed))
           => model'.t_inner = model.t_inner]_vars

\* C9: at the start of every run self.converged is false,
\* iterations_executed is 0 and iterations_remaining is the configured
\* iterations.
C9_FreshBudget ==
    (pc = "while" /\ calls = <<>>) =>
        /\ ~self_converged
        /\ iterations_executed = 0
        /\ iterations_remaining = tardis_config.iterations

\* C10 as stated: the diagnostic is emitted exactly when every packet
\* energy is non-positive.
C10_NonPositive ==
    montecarlo_energies # None =>
        (critical_logged <=> AllNonPositive(The(montecarlo_energies)))

\* C10 amended: the diagnostic is emitted exactly when every packet energy
\* is strictly negative; the transport call of a loop iteration raises
\* nothing and advances the counters, leaving the model and the hold state
\* as they were, whether or not the diagnostic is emitted.
C10_Negative ==
    /\ [](montecarlo_energies # None =>
            /\ critical_logged <=> AllNegative(The(montecarlo_energies))
            /\ error = None)
    /\ [][(pc = "while" /\ pc' # "while") =>
            /\ montecarlo_energies' # None
            /\ pc' \in {"estimate", "done"}
            /\ pc' = "estimate" =>
                  /\ iterations_executed' = iterations_executed + 1
                  /\ iterations_remaining' = iterations_remaining - 1
            /\ model'.t_rads = model.t_rads
            /\ model'.ws = model.ws
            /\ model'.t_inner = model.t_inner
            /\ self_converged' = self_converged
            /\ converged' = converged
         ]_vars

\* a loop iteration that goes on after the diagnostic was emitted for a
\* call with more than one packet
C10_Witness ==
    /\ pc = "estimate"
    /\ critical_logged
    /\ montecarlo_energies # None
    /\ The(montecarlo_energies) = [i \in 1..MaxPackets |-> -1]

\* the loop (non-final) transport calls of the current run
LoopCalls == {i \in 1..Len(calls) : ~calls[i].last_run}

\* C11: a completed run has recorded on the model the number of loop
\* transport calls as iterations_executed, the configured iterations as
\* iterations_max_requested and the verdict of the last loop iteration
\* (false when no loop iteration ran) as converged.
C11_RecordedOnModel ==
    pc = "done" =>
        /\ model.iterations_executed = Some(Cardinality(LoopCalls))
        /\ model.iterations_max_requested = Some(tardis_config.iterations)
        /\ model.converged = Some(converged)
        /\ LoopCalls = {} => model.converged = Some(FALSE)

C11_Witness ==
    /\ pc = "done"
    /\ Cardinality(LoopCalls) = 2
    /\ model.converged = Some(TRUE)
    /\ model.iterations_executed = Some(2)

\* the direct call that has returned, if it is a call of fn
Returned(fn) == call # None /\ result # None /\ The(call).fn = fn

\* the shells whose relative deviation |current - estimated| / estimated
\* is strictly below num / den
ShellsWithin(current, estimated_value, num, den) ==
    {s \in Shells :
        LET deviation == IF current[s] >= estimated_value[s]
                         THEN current[s] - estimated_value[s]
                         ELSE estimated_value[s] - current[s]
        IN den * deviation < num * estimated_value[s]}

\* the exact ratio count / no_of_shells strictly exceeds num / den
RatioExceeds(count, num, den) == den * count > num * no_of_shells

\* C12: in 'specific' mode get_convergence_status returns true exactly
\* when the exact fraction of shells with t_rad deviation below
\* t_rad.threshold exceeds t_rad.threshold, the same holds for w with
\* w.threshold, and the t_inner deviation is below t_inner.threshold.
C12_SpecificVerdict ==
    (Returned("get_convergence_status") /\ The(call).type = "specific") =>
        LET c == The(call)
            t_rad_ok ==
                RatioExceeds(
                    Cardinality(ShellsWithin(c.t_rad, c.estimated_t_rad,
                                             t_rad_threshold[1],
                                             t_rad_threshold[2])),
                    t_rad_threshold[1], t_rad_threshold[2])
            w_ok ==
                RatioExceeds(
                    Cardinality(ShellsWithin(c.w, c.estimated_w,
                                             w_threshold[1], w_threshold[2])),
                    w_threshold[1], w_threshold[2])
            t_inner_ok ==
                t_inner_threshold[2] * Abs(c.t_inner - c.estimated_t_inner)
                    < t_inner_threshold[1] * c.estimated_t_inner
        IN /\ ~The(result).raised
           /\ The(result).value <=> (t_rad_ok /\ w_ok /\ t_inner_ok)

\* a true verdict with only one of the two shells within the t_rad
\* tolerance: the fraction 1/2 exceeds the threshold 2/5
C12_Witness ==
    /\ Returned("get_convergence_status")
    /\ The(call).type = "specific"
    /\ The(result).value
    /\ The(call).t_rad = <<3, 3>>
    /\ The(call).estimated_t_rad = <<3, 5>>

\* C13: with hold_iterations = 0 an iteration whose verdict is true leaves
\* iterations_remaining <= 1 at the loop check that follows it, so that no
\* further loop iteration runs and the terminal run comes next.
C13_ZeroHoldEndsLoop ==
    [][ (hold_iterations = 0 /\ converged) =>
            /\ (pc = "hold" /\ pc' = "while") =>
                   /\ iterations_remaining' = 0
                   /\ ~LoopCondition(iterations_remaining')
            /\ (pc = "while" /\ iterations_executed > 0) =>
                   /\ ~LoopCondition(iterations_remaining)
                   /\ pc' = "done"
                   /\ calls'[Len(calls')].last_run ]_vars

\* a run with hold_iterations = 0 ended by a true verdict in its first
\* iteration, with two more iterations requested
C13_Witness ==
    /\ hold_iterations = 0
    /\ tardis_config.iterations = 3
    /\ pc = "done"
    /\ converged
    /\ iterations_executed = 1
    /\ Len(calls) = 2

\* r = value + (num / den) * (estimated_value - value), without division
IsDamped(r, value, estimated_value, num, den) ==
    den * (r - value) = num * (estimated_value - value)

\* r lies strictly between a and b
StrictlyBetween(r, a, b) == (a < r /\ r < b) \/ (b < r /\ r < a)

\* C14: damped_converge returns value + d * (estimated_value - value):
\* strictly between the two for 0 < d < 1 when they differ, the estimate
\* itself for d = 1; calculate_next_plasma_state applies that rule to t_rad,
\* w and t_inner, each with its own damping constant, in both the 'damped'
\* and the 'specific' mode.
C14_DampedUpdate ==
    /\ Returned("damped_converge") =>
           LET c == The(call)
               d == c.damping_factor
               r == The(result)
           IN /\ IsDamped(r, c.value, c.estimated_value, d[1], d[2])
              /\ (0 < d[1] /\ d[1] < d[2] /\ c.value # c.estimated_value) =>
                     StrictlyBetween(r, c.value, c.estimated_value)
              /\ d[1] = d[2] => r = c.estimated_value
    /\ (Returned("calculate_next_plasma_state")
            /\ The(call).type \in {"damped", "specific"}) =>
           LET c == The(call)
               r == The(result)
           IN /\ ~r.raised
              /\ \A s \in Shells :
                     /\ IsDamped(r.next_t_rad[s], c.t_rad[s],
                                 c.estimated_t_rad[s],
                                 t_rad_damping_constant[1],
                                 t_rad_damping_constant[2])
                     /\ IsDamped(r.next_w[s], c.w[s], c.estimated_w[s],
                                 w_damping_constant[1], w_damping_constant[2])
              /\ IsDamped(r.next_t_inner, c.t_inner, c.estimated_t_inner,
                          t_inner_damping_constant[1],
                          t_inner_damping_constant[2])

\* a damped call whose result lies strictly between value and estimate
C14_Witness ==
    /\ Returned("damped_converge")
    /\ The(call).value = 1
    /\ The(call).estimated_value = 5
    /\ The(call).damping_factor = <<3, 4>>
    /\ The(result) = 4

\* C15: when the estimate equals the current value the damped update
\* returns the current value for every damping constant, so a plasma state
\* equal to its estimate is a fixed point of the state replacement.
C15_FixedPoint ==
    /\ (Returned("damped_converge")
            /\ The(call).estimated_value = The(call).value) =>
           The(result) = The(call).value
    /\ (Returned("calculate_next_plasma_state")
            /\ The(call).type \in {"damped", "specific"}
            /\ The(call).estimated_t_rad = The(call).t_rad
            /\ The(call).estimated_w = The(call).w
            /\ The(call).estimated_t_inner = The(call).t_inner) =>
           /\ The(result).next_t_rad = The(call).t_rad
           /\ The(result).next_w = The(call).w
           /\ The(result).next_t_inner = The(call).t_inner

\* a damped call with estimate equal to value and a factor above 1
C15_Witness ==
    /\ Returned("damped_converge")
    /\ The(call).value = 3
    /\ The(call).estimated_value = 3
    /\ The(call).damping_factor = <<5, 4>>
    /\ The(result) = 3

\* C16: in 'damped' mode the verdict of every iteration is false: the
\* instance flag is never set, iterations_remaining is only ever counted
\* down, and a run with iterations >= 1 makes exactly `iterations` transport
\* calls (iterations - 1 in the loop and the terminal one) and records
\* converged = false on the model.
C16_DampedNeverConverges ==
    tardis_config.type = "damped" =>
        /\ ~converged
        /\ ~self_converged
        /\ converged_from = 0
        /\ pc # "error"
        /\ pc # "idle" =>
               iterations_executed + iterations_remaining
                   = tardis_config.iterations
        /\ (pc = "done" /\ tardis_config.iterations >= 1) =>
               /\ Len(calls) = tardis_config.iterations
               /\ Cardinality(LoopCalls) = tardis_config.iterations - 1
               /\ calls[Len(calls)].last_run
               /\ model.converged = Some(FALSE)

\* a completed 'damped' run of three requested iterations: two loop
\* iterations and the terminal run
C16_Witness ==
    /\ tardis_config.type = "damped"
    /\ tardis_config.iterations = 3
    /\ pc = "done"
    /\ Len(calls) = 3
    /\ model.converged = Some(FALSE)

\* C17 as stated: no run configured with an unrecognized convergence
\* strategy type completes normally, whatever iterations is.
C17_AlwaysAborted ==
    ~KnownType => pc # "done"

\* C17 amended: with an unrecognized type a run whose loop body runs
\* (iterations >= 2) is aborted in its first iteration by the configuration
\* error, after that iteration's transport call and before any terminal run,
\* with t_rads, ws and t_inner as they were before the iteration; a run with
\* iterations <= 1 never uses the strategy and completes normally.
C17_AbortedAtFirstUse ==
    ~KnownType =>
        /\ pc = "done" =>
               /\ tardis_config.iterations <= 1
               /\ iterations_executed = 0
               /\ Len(calls) = 1
               /\ error = None
        /\ tardis_config.iterations <= 1 => pc \notin {"next_state", "error"}
        /\ (tardis_config.iterations >= 2 /\ pc # "idle") =>
               iterations_executed <= 1
        /\ pc = "error" =>
               /\ tardis_config.iterations >= 2
               /\ iterations_executed = 1
               /\ Len(calls) = 1
               /\ ~calls[1].last_run
               /\ model.t_rads = FreshModel.t_rads
               /\ model.ws = FreshModel.ws
               /\ model.t_inner = FreshModel.t_inner
               /\ model.converged = None

\* a run with an unrecognized type and three requested iterations, aborted
\* after its first transport call
C17_Witness ==
    /\ ~KnownType
    /\ tardis_config.iterations = 3
    /\ pc = "error"
    /\ Len(calls) = 1
    /\ model.t_rads = FreshModel.t_rads

\* C18: at every evaluation of the loop condition at which the instance
\* flag self.converged is false, iterations_executed + iterations_remaining
\* equals iterations_max_requested: the budget spent in an abandoned hold is
\* neither lost nor refunded.
C18_BudgetConserved ==
    (pc = "while" /\ ~self_converged) =>
        /\ iterations_executed + iterations_remaining
               = iterations_max_requested
        /\ iterations_max_requested = tardis_config.iterations

\* the loop check after a hold of two was entered at iteration 1 and
\* abandoned at iteration 2 of three requested
C18_Witness ==
    /\ pc = "while"
    /\ ~self_converged
    /\ hold_iterations = 2
    /\ tardis_config.iterations = 3
    /\ converged_from = -1
    /\ iterations_executed = 2
    /\ iterations_remaining = 1

\* C19: with hold_iterations >= 2 an iteration with a true verdict leaves
\* iterations_remaining = hold_iterations > 1, so the loop exits only after
\* an iteration with a false verdict (or without any iteration): every
\* completed run records converged = false on the model and ends with the
\* instance flag false.
C19_LongHoldNeverRecordsConverged ==
    hold_iterations >= 2 =>
        /\ (pc = "while" /\ converged) =>
               /\ iterations_remaining = hold_iterations
               /\ LoopCondition(iterations_remaining)
        /\ pc = "done" =>
               /\ ~converged
               /\ model.converged = Some(FALSE)
               /\ ~self_converged

\* a completed run with a hold of two that was converged at iteration 1 and
\* left the loop after the false verdict of iteration 2
C19_Witness ==
    /\ hold_iterations = 2
    /\ pc = "done"
    /\ converged_from = -1
    /\ iterations_executed = 2
    /\ model.converged = Some(FALSE)

\* the plasma state held by a model
PlasmaOf(m) == <<m.t_rads, m.ws, m.t_inner>>

\* C20: within a run the model's t_rads, ws and t_inner are replaced once
\* per loop iteration, by the step that follows the iteration's transport
\* call and verdict and precedes the next loop check, whatever the verdict;
\* no other step of the run, the terminal run and its finalization
\* included, changes them.
C20_ReplacedOncePerIteration ==
    [][ /\ (pc = "while" /\ pc' # pc) => pc' \in {"estimate", "done"}
        /\ (pc = "estimate" /\ pc' # pc) => pc' = "next_state"
        /\ (pc = "next_state" /\ pc' # pc) => pc' \in {"hold", "error"}
        /\ (pc = "hold" /\ pc' # pc) => pc' = "while"
        /\ (pc = "next_state" /\ pc' = "hold") =>
               LET next == Calculate_next_plasma_state(
                               tardis_config.type, model.t_rads, model.ws,
                               model.t_inner, The(estimated).w,
                               The(estimated).t_rad, The(estimated).t_inner)
               IN /\ PlasmaOf(model') =
                         <<next.next_t_rad, next.next_w, next.next_t_inner>>
                  /\ converged' = converged
                  /\ Len(calls') = Len(calls)
        /\ (pc \in {"while", "estimate", "hold"}
                \/ (pc = "next_state" /\ pc' = "error")) =>
               PlasmaOf(model') = PlasmaOf(model)
        /\ pc' = "done" =>
               /\ PlasmaOf(model') = PlasmaOf(model)
               /\ pc = "while" => calls'[Len(calls')].last_run ]_vars

\* the state replaced during a hold: after two converged iterations the
\* t_rad of the first shell has moved half way to its estimate
C20_Witness ==
    /\ pc = "hold"
    /\ iterations_executed = 2
    /\ self_converged
    /\ converged
    /\ model.t_rads = <<2, 3>>
    /\ model.t_rads # FreshModel.t_rads

====
